---- MODULE Spec2Model ----
(***************************************************************************)
(* Model of obs_operator.py: the OBS Operator HTTP gateway.                *)
(*                                                                         *)
(* Strings are sequences of tokens.  Every delimiter the code looks at     *)
(* ("/", ":", ".", "?", "#", "&", "=", " ") is a token of its own; any     *)
(* other token is a run of non-delimiter characters.  A label such as      *)
(* "example" may be written as several tokens (<<"ex", "ample">>), so that *)
(* suffix tests see the inside of a label.                                  *)
(***************************************************************************)
EXTENDS Integers, Sequences, FiniteSets, TLC

\* ------------------------------------------------------------------ bounds
MaxThreads == 2
MaxBatch == 3
MaxLabels == 3
MaxClock == 3

\* --------------------------------------------------------- python values
NoneTok == "<None>"
None == <<NoneTok>>
Truthy(x) == x # None /\ x # <<>>

\* ------------------------------------------------------- string helpers
Contains(s, c) == \E i \in 1..Len(s) : s[i] = c

Find(s, c) == IF Contains(s, c) THEN CHOOSE i \in 1..Len(s) : s[i] = c /\ \A j \in 1..(i - 1) : s[j] # c ELSE 0

RECURSIVE Split(_, _)
Split(s, c) == IF ~Contains(s, c) THEN <<s>> ELSE <<SubSeq(s, 1, Find(s, c) - 1)>> \o Split(SubSeq(s, Find(s, c) + 1, Len(s)), c)

RECURSIVE Join(_, _)
Join(parts, c) == IF Len(parts) = 0 THEN <<>> ELSE IF Len(parts) = 1 THEN parts[1] ELSE parts[1] \o <<c>> \o Join(Tail(parts), c)

LastItems(parts, n) == IF Len(parts) <= n THEN parts ELSE SubSeq(parts, Len(parts) - n + 1, Len(parts))

FirstItems(parts, n) == IF Len(parts) <= n THEN parts ELSE SubSeq(parts, 1, n)

DropItems(parts, n) == IF Len(parts) <= n THEN <<>> ELSE SubSeq(parts, n + 1, Len(parts))

EndsWith(s, suffix) == Len(suffix) <= Len(s) /\ SubSeq(s, Len(s) - Len(suffix) + 1, Len(s)) = suffix

RECURSIVE LStrip(_, _)
LStrip(s, c) == IF Len(s) > 0 /\ s[1] = c THEN LStrip(Tail(s), c) ELSE s

\* ------------------------------------------------------ urllib.parse
NotSchemeChars == {"/", ":", "?", "#", "&", "=", " ", "@"}

HasScheme(url) == Find(url, ":") > 1 /\ \A i \in 1..(Find(url, ":") - 1) : url[i] \notin NotSchemeChars

AfterScheme(url) == IF HasScheme(url) THEN SubSeq(url, Find(url, ":") + 1, Len(url)) ELSE url

HasNetloc(rest) == Len(rest) >= 2 /\ rest[1] = "/" /\ rest[2] = "/"

NetlocEnd(rest) == IF \E i \in 3..Len(rest) : rest[i] \in {"/", "?", "#"} THEN CHOOSE i \in 3..Len(rest) : rest[i] \in {"/", "?", "#"} /\ \A j \in 3..(i - 1) : rest[j] \notin {"/", "?", "#"} ELSE Len(rest) + 1

AfterNetloc(url) == IF HasNetloc(AfterScheme(url)) THEN SubSeq(AfterScheme(url), NetlocEnd(AfterScheme(url)), Len(AfterScheme(url))) ELSE AfterScheme(url)

UrlNetloc(url) == IF HasNetloc(AfterScheme(url)) THEN SubSeq(AfterScheme(url), 3, NetlocEnd(AfterScheme(url)) - 1) ELSE <<>>

NoFragment(url) == Split(AfterNetloc(url), "#")[1]

UrlPath(url) == Split(NoFragment(url), "?")[1]

UrlQuery(url) == IF Contains(NoFragment(url), "?") THEN SubSeq(NoFragment(url), Find(NoFragment(url), "?") + 1, Len(NoFragment(url))) ELSE <<>>

ParseQs(query) ==
    LET f == Split(query, "&")
        good == {i \in 1..Len(f) : Len(Split(f[i], "=")) >= 2 /\ Split(f[i], "=")[2] # <<>>}
        first(k) == CHOOSE i \in good : Split(f[i], "=")[1] = k /\ \A j \in good : Split(f[j], "=")[1] = k => i <= j
    IN [k \in {Split(f[i], "=")[1] : i \in good} |-> Split(f[first(k)], "=")[2]]

\* ------------------------------------------------------ http.cookies
RECURSIVE Strip(_, _)
Strip(s, c) == IF Len(s) > 0 /\ s[Len(s)] = c THEN Strip(SubSeq(s, 1, Len(s) - 1), c) ELSE LStrip(s, c)

Morsels(cookie) == {Split(Strip(Split(cookie, ";")[i], " "), "=") : i \in 1..Len(Split(cookie, ";"))}

SimpleCookie(cookie) == [k \in {m[1] : m \in {x \in Morsels(cookie) : Len(x) >= 2}} |-> (CHOOSE m \in Morsels(cookie) : Len(m) >= 2 /\ m[1] = k)[2]]

\* ------------------------------------------------------------- constants
COOKIE_NAME == <<"openSUSE_session">>

GET_PATHS == {<<"origin", "/", "config">>, <<"origin", "/", "history">>, <<"origin", "/", "list">>, <<"origin", "/", "package">>,
              <<"origin", "/", "potentials">>, <<"origin", "/", "projects">>, <<"origin", "/", "report">>, <<"package", "/", "diff">>}

POST_PATHS == {<<"request", "/", "submit">>, <<"staging", "/", "select">>}

\* ------------------------------------------------------- request inputs
Threads == 1..MaxThreads

Names == 1..(2 * MaxThreads)

FixedApiurl == <<"https", ":", "/", "/", "api", ".", "suse", ".", "de">>

FixedSession == <<"operator-session">>

HostValues == {None,
               <<"localhost", ":", "8080">>,
               <<"operator", ".", "ex", "ample", ".", "com", ":", "8080">>}

OriginValues == {None,
                 <<"null">>,
                 <<"https", ":", "/", "/", "build", ".", "ex", "ample", ".", "com">>,
                 <<"https", ":", "/", "/", "evil", ".", "org", ":", "443">>,
                 <<"https", ":", "/", "/", "ample", ".", "com">>}

CookieValues == {None,
                 <<"theme", "=", "dark">>,
                 <<"theme", "=", "dark", ";", " ", "openSUSE_session", "=", "s3cr3t">>}

GetPathValues == {<<"/">>,
                  <<"/", "origin", "/", "list">>,
                  <<"/", "foo", "/", "bar", "/", "baz">>,
                  <<"/", "origin", "/", "list", "/", "P", "?", "format", "=", "yaml">>,
                  <<"/", "package", "/", "diff", "/", "P", "/", "pkg">>,
                  <<"/", "package", "/", "diff", "/", "P", "/", "pkg", "/", "T", "/", "tpkg", "/", "r1">>}

\* Paths of the routes that negotiate an output format.
FormatPathValues == {<<"/", "origin", "/", "list", "/", "P", "?", "format", "=", "yaml">>,
                     <<"/", "origin", "/", "history", "/", "P", "/", "pkg">>,
                     <<"/", "origin", "/", "potentials", "/", "P", "?", "format", "=", "yaml", "&", "format", "=", "json">>}

AcceptValues == {<<"application", "/", "json">>,
                 <<"text", "/", "html">>,
                 <<"json">>}

PostPathValues == {<<"/", "staging">>,
                   <<"/", "foo", "/", "bar">>,
                   <<"/", "request", "/", "submit", "/", "P", "/", "pkg", "/", "T">>,
                   <<"/", "request", "/", "submit", "/", "P">>,
                   <<"/", "staging", "/", "select">>}

StagingNames == <<"A", "B", "C", "D", "E">>

Selection(n) == [i \in 1..n |-> <<<<StagingNames[i]>>, <<<<"req1">>, <<"req2">>>>>>]

\* A request body after data_parse: "raises" stands for a missing
\* Content-Length or undecodable JSON; otherwise the decoded object.
NoBody == [parse |-> "ok", has |-> {}, user |-> None, project |-> <<>>, selection |-> <<>>, move |-> FALSE]

BodyValues == {[NoBody EXCEPT !.parse = "raises"], NoBody,
               [NoBody EXCEPT !.has = {"selection"}, !.selection = Selection(1)],
               [NoBody EXCEPT !.has = {"project", "selection", "move"}, !.project = <<"P">>, !.selection = Selection(1)],
               [NoBody EXCEPT !.has = {"project", "selection", "move", "user"}, !.project = <<"P">>, !.selection = Selection(2), !.move = TRUE, !.user = <<"alice">>]}
              \cup {[NoBody EXCEPT !.has = {"project", "selection"}, !.project = <<"P">>, !.selection = Selection(n)] : n \in 1..MaxBatch}

NoRequest == [method |-> "", path |-> <<>>, Host |-> None, Origin |-> None, Cookie |-> None, Accept |-> None, body |-> NoBody]

RequestValues ==
    {[NoRequest EXCEPT !.method = "GET", !.path = p, !.Host = h, !.Origin = o, !.Cookie = c] :
        p \in GetPathValues, h \in HostValues, o \in OriginValues, c \in CookieValues}
    \cup {[NoRequest EXCEPT !.method = "GET", !.path = p, !.Host = h, !.Cookie = c, !.Accept = a] :
        p \in FormatPathValues, h \in HostValues, c \in CookieValues, a \in {None} \cup AcceptValues}
    \cup {[NoRequest EXCEPT !.method = "OPTIONS", !.path = <<"/">>, !.Host = h, !.Origin = o, !.Cookie = c] :
        h \in HostValues, o \in OriginValues, c \in CookieValues}
    \cup {[NoRequest EXCEPT !.method = "POST", !.path = p, !.Host = h, !.Origin = o, !.Cookie = c, !.body = b] :
        p \in PostPathValues, h \in HostValues, o \in OriginValues, c \in CookieValues, b \in BodyValues}

\* ------------------------------------------------------------------ state
VARIABLES apiurl, session, now, req, pc, exc, entered, headers_buffer, wfile, cookiejar_file, oscrc_file,
          commands, command, runs, environ, files, content

vars == <<apiurl, session, now, req, pc, exc, entered, headers_buffer, wfile, cookiejar_file, oscrc_file,
          commands, command, runs, environ, files, content>>

\* ------------------------------------------------------- request parsing
PathParts(q) == Split(LStrip(UrlPath(q.path), "/"), "/")

PathPrefix(q) == Join(FirstItems(PathParts(q), 2), "/")

Args(q) == DropItems(PathParts(q), 2)

Query(q) == ParseQs(UrlQuery(q.path))

\* Mutant: the fixed endpoint is ignored, the endpoint always comes from Host.
apiurl_get_from_host(q) ==
    IF ~Truthy(q.Host) THEN None
    ELSE IF ~Contains(Split(q.Host, ":")[1], ".") THEN None
    ELSE <<"https", ":", "/", "/", "api", ".">> \o Join(LastItems(Split(Split(q.Host, ":")[1], "."), 2), ".")

\* Mutant: the port is left on the host before its labels are taken.
apiurl_get_keeps_port(q) ==
    IF Truthy(apiurl) THEN apiurl
    ELSE IF ~Truthy(q.Host) THEN None
    ELSE IF ~Contains(q.Host, ".") THEN None
    ELSE <<"https", ":", "/", "/", "api", ".">> \o Join(LastItems(Split(q.Host, "."), 2), ".")

apiurl_get(q) ==
    IF Truthy(apiurl) THEN apiurl
    ELSE IF ~Truthy(q.Host) THEN None
    ELSE IF ~Contains(Split(q.Host, ":")[1], ".") THEN None
    ELSE <<"https", ":", "/", "/", "api", ".">> \o Join(LastItems(Split(Split(q.Host, ":")[1], "."), 2), ".")

origin_domain_get(q) ==
    IF q.Origin # None /\ Contains(Split(UrlNetloc(q.Origin), ":")[1], ".")
    THEN Join(LastItems(Split(Split(UrlNetloc(q.Origin), ":")[1], "."), 2), ".")
    ELSE None

session_get(q) ==
    IF Truthy(session) THEN session
    ELSE IF Truthy(q.Cookie) /\ COOKIE_NAME \in DOMAIN SimpleCookie(q.Cookie) THEN SimpleCookie(q.Cookie)[COOKIE_NAME]
    ELSE None

\* -------------------------------------------------------------- handlers
AcceptFormat(q) == IF Truthy(q.Accept) /\ Split(q.Accept, "/")[2] \in {<<"json">>, <<"yaml">>} THEN Split(q.Accept, "/")[2] ELSE None

Format(q) == IF Truthy(AcceptFormat(q)) THEN AcceptFormat(q) ELSE IF <<"format">> \in DOMAIN Query(q) THEN Query(q)[<<"format">>] ELSE None

command_format_raises(q) == Truthy(q.Accept) /\ Len(Split(q.Accept, "/")) < 2

command_format_add(cmd, q) == IF Truthy(Format(q)) THEN cmd \o <<<<"--format">>, Format(q)>> ELSE cmd

Flag(q, key, flag) == IF key \in DOMAIN Query(q) THEN <<flag>> ELSE <<>>

Optional(args, i) == IF Len(args) >= i THEN <<args[i]>> ELSE <<>>

handle_origin_config(q) == <<<<"osc">>, <<"origin">>, <<"-p">>, Args(q)[1], <<"config">>>> \o Flag(q, <<"origins-only">>, <<"--origins-only">>)

handle_origin_history(q) == command_format_add(<<<<"osc">>, <<"origin">>, <<"-p">>, Args(q)[1], <<"history">>>>, q) \o Optional(Args(q), 2)

handle_origin_list(q) == command_format_add(<<<<"osc">>, <<"origin">>, <<"-p">>, Args(q)[1], <<"list">>>> \o Flag(q, <<"force-refresh">>, <<"--force-refresh">>), q)

handle_origin_package(q) == <<<<"osc">>, <<"origin">>, <<"-p">>, Args(q)[1], <<"package">>>> \o Flag(q, <<"debug">>, <<"--debug">>) \o Optional(Args(q), 2)

handle_origin_potentials(q) == command_format_add(<<<<"osc">>, <<"origin">>, <<"-p">>, Args(q)[1], <<"potentials">>>>, q) \o Optional(Args(q), 2)

handle_origin_projects(q) == command_format_add(<<<<"osc">>, <<"origin">>, <<"projects">>>>, q)

handle_origin_report(q) == <<<<"osc">>, <<"origin">>, <<"-p">>, Args(q)[1], <<"report">>>> \o Flag(q, <<"force-refresh">>, <<"--force-refresh">>)

\* Mutant: --revision is passed only when both revisions are given.
handle_package_diff_both_revisions(q) ==
    <<<<"osc">>, <<"rdiff">>, Args(q)[1], Args(q)[2], Args(q)[3]>> \o Optional(Args(q), 4)
    \o (IF Len(Args(q)) >= 6 THEN <<<<"--revision">>, Join(FirstItems(DropItems(Args(q), 4), 2), ":")>> ELSE <<>>)

handle_package_diff(q) ==
    <<<<"osc">>, <<"rdiff">>, Args(q)[1], Args(q)[2], Args(q)[3]>> \o Optional(Args(q), 4)
    \o (IF Len(Args(q)) >= 5 THEN <<<<"--revision">>, Join(FirstItems(DropItems(Args(q), 4), 2), ":")>> ELSE <<>>)

handle_request_submit(q) ==
    <<<<<<"osc">>, <<"sr">>, Args(q)[1], Args(q)[2], Args(q)[3], <<"-m">>,
       (IF <<"message">> \in DOMAIN Query(q) THEN Query(q)[<<"message">>] ELSE <<"created via operator">>),
       <<"--yes">>>>>>

staging_command(project, subcommand) == <<<<"osc">>, <<"staging">>, <<"-p">>, project, subcommand>>

\* Mutant: --move is put behind the staging name.
handle_staging_select_move_last(q, i) ==
    staging_command(q.body.project, <<"select">>)
    \o <<q.body.selection[i][1]>>
    \o (IF "move" \in q.body.has /\ q.body.move THEN <<<<"--move">>>> ELSE <<>>)
    \o q.body.selection[i][2]

\* The i-th command the handle_staging_select generator yields.
handle_staging_select(q, i) ==
    staging_command(q.body.project, <<"select">>)
    \o (IF "move" \in q.body.has /\ q.body.move THEN <<<<"--move">>>> ELSE <<>>)
    \o <<q.body.selection[i][1]>> \o q.body.selection[i][2]

\* The exception the GET route handler raises for q, "" if none.
GetHandlerRaises(q) ==
    IF PathPrefix(q) = <<"package", "/", "diff">> /\ Len(Args(q)) < 3 THEN "IndexError"
    ELSE IF PathPrefix(q) \in {<<"origin", "/", "history">>, <<"origin", "/", "list">>, <<"origin", "/", "potentials">>, <<"origin", "/", "projects">>}
            /\ command_format_raises(q) THEN "IndexError"
    ELSE ""

GetHandler(q) ==
    CASE PathPrefix(q) = <<"origin", "/", "config">> -> handle_origin_config(q)
      [] PathPrefix(q) = <<"origin", "/", "history">> -> handle_origin_history(q)
      [] PathPrefix(q) = <<"origin", "/", "list">> -> handle_origin_list(q)
      [] PathPrefix(q) = <<"origin", "/", "package">> -> handle_origin_package(q)
      [] PathPrefix(q) = <<"origin", "/", "potentials">> -> handle_origin_potentials(q)
      [] PathPrefix(q) = <<"origin", "/", "projects">> -> handle_origin_projects(q)
      [] PathPrefix(q) = <<"origin", "/", "report">> -> handle_origin_report(q)
      [] PathPrefix(q) = <<"package", "/", "diff">> -> handle_package_diff(q)

\* ---------------------------------------------------- response primitives
Blank == <<"CRLF">>

send_response(buf, code) == buf \o <<<<"HTTP", code>>, <<"Server", ":">>, <<"Date", ":">>>>

send_header(buf, keyword, value) == Append(buf, <<keyword, ":">> \o value)

write_string(w, string) == Append(w, <<"TEXT">> \o string)

\* end_headers: the buffered lines and the blank line go out on the wire.
Flushed(w, buf) == w \o buf \o <<Blank>>

\* A file: what was written to it, and its modification time in seconds.
NoContent == [kind |-> "", apiurl |-> <<>>, cookiejar |-> 0, user |-> <<>>, session |-> <<>>, mtime |-> 0]

\* Writing data to a file at time t.
Written(c, t) == [c EXCEPT !.mtime = t]

\* os.utime(name, (t, t)).
Utime(c, t) == [c EXCEPT !.mtime = t]

RECENT_PAST == 3600

NoCommands == [kind |-> "", next |-> 0]

\* ------------------------------------------------------------------ Init
Init ==
    /\ apiurl \in {None, FixedApiurl}
    /\ session \in {None, FixedSession}
    /\ now = 0
    /\ req = [r \in Threads |-> NoRequest]
    /\ pc = [r \in Threads |-> "idle"]
    /\ exc = [r \in Threads |-> ""]
    /\ entered = [r \in Threads |-> FALSE]
    /\ headers_buffer = [r \in Threads |-> <<>>]
    /\ wfile = [r \in Threads |-> <<>>]
    /\ cookiejar_file = [r \in Threads |-> 0]
    /\ oscrc_file = [r \in Threads |-> 0]
    /\ commands = [r \in Threads |-> NoCommands]
    /\ command = [r \in Threads |-> <<>>]
    /\ runs = [r \in Threads |-> <<>>]
    /\ environ = 0
    /\ files = {}
    /\ content = [n \in Names |-> NoContent]

\* --------------------------------------------------------------- actions
\* A connection is accepted on worker r and its request line and headers read.
Receive(r, q) ==
    /\ pc[r] = "idle"
    /\ req' = [req EXCEPT ![r] = q]
    /\ pc' = [pc EXCEPT ![r] = "route"]
    /\ exc' = [exc EXCEPT ![r] = ""]
    /\ entered' = [entered EXCEPT ![r] = FALSE]
    /\ headers_buffer' = [headers_buffer EXCEPT ![r] = <<>>]
    /\ wfile' = [wfile EXCEPT ![r] = <<>>]
    /\ commands' = [commands EXCEPT ![r] = NoCommands]
    /\ command' = [command EXCEPT ![r] = <<>>]
    /\ runs' = [runs EXCEPT ![r] = <<>>]
    /\ UNCHANGED <<apiurl, session, now, cookiejar_file, oscrc_file, environ, files, content>>

RootText == <<<<"namespace: ", "common.NAME", "\n">>, <<"name: ", "OBS Operator", "\n">>, <<"version: ", "common.VERSION", "\n">>>>

\* Mutant: do_GET without the len(path_parts) < 3 test.
RouteGetNoLengthCheck(r) ==
    /\ pc[r] = "route" /\ req[r].method = "GET"
    /\ IF PathPrefix(req[r]) = <<>>
       THEN /\ wfile' = [wfile EXCEPT ![r] = write_string(write_string(write_string(Flushed(@, send_header(send_response(headers_buffer[r], "200"), "Content-type", <<"text/plain">>)), RootText[1]), RootText[2]), RootText[3])]
            /\ pc' = [pc EXCEPT ![r] = "done"]
       ELSE IF PathPrefix(req[r]) \notin GET_PATHS
       THEN /\ wfile' = [wfile EXCEPT ![r] = Flushed(@, send_response(headers_buffer[r], "404"))]
            /\ pc' = [pc EXCEPT ![r] = "done"]
       ELSE /\ pc' = [pc EXCEPT ![r] = "enter"]
            /\ UNCHANGED wfile
    /\ UNCHANGED <<apiurl, session, now, entered, req, exc, headers_buffer, cookiejar_file, oscrc_file, commands, command, runs, environ, files, content>>

\* do_GET up to the with statement.
RouteGet(r) ==
    /\ pc[r] = "route" /\ req[r].method = "GET"
    /\ IF PathPrefix(req[r]) = <<>>
       THEN /\ wfile' = [wfile EXCEPT ![r] = write_string(write_string(write_string(Flushed(@, send_header(send_response(headers_buffer[r], "200"), "Content-type", <<"text/plain">>)), RootText[1]), RootText[2]), RootText[3])]
            /\ pc' = [pc EXCEPT ![r] = "done"]
       ELSE IF Len(PathParts(req[r])) < 3 \/ PathPrefix(req[r]) \notin GET_PATHS
       THEN /\ wfile' = [wfile EXCEPT ![r] = Flushed(@, send_response(headers_buffer[r], "404"))]
            /\ pc' = [pc EXCEPT ![r] = "done"]
       ELSE /\ pc' = [pc EXCEPT ![r] = "enter"]
            /\ UNCHANGED wfile
    /\ UNCHANGED <<apiurl, session, now, entered, req, exc, headers_buffer, cookiejar_file, oscrc_file, commands, command, runs, environ, files, content>>

\* do_POST up to the with statement.
RoutePost(r) ==
    /\ pc[r] = "route" /\ req[r].method = "POST"
    /\ IF Len(PathParts(req[r])) < 2 \/ PathPrefix(req[r]) \notin POST_PATHS
       THEN /\ wfile' = [wfile EXCEPT ![r] = Flushed(@, send_response(headers_buffer[r], "404"))]
            /\ pc' = [pc EXCEPT ![r] = "done"]
            /\ UNCHANGED exc
       ELSE IF req[r].body.parse = "raises"
       THEN /\ exc' = [exc EXCEPT ![r] = "ValueError"]
            /\ pc' = [pc EXCEPT ![r] = "raised"]
            /\ UNCHANGED wfile
       ELSE /\ pc' = [pc EXCEPT ![r] = "enter"]
            /\ UNCHANGED <<wfile, exc>>
    /\ UNCHANGED <<apiurl, session, now, entered, req, headers_buffer, cookiejar_file, oscrc_file, commands, command, runs, environ, files, content>>

\* do_OPTIONS goes straight to the with statement.
RouteOptions(r) ==
    /\ pc[r] = "route" /\ req[r].method = "OPTIONS"
    /\ pc' = [pc EXCEPT ![r] = "enter"]
    /\ UNCHANGED <<apiurl, session, now, entered, req, exc, headers_buffer, wfile, cookiejar_file, oscrc_file, commands, command, runs, environ, files, content>>

\* Mutant: every method requires a session.
require_session_always(q) == TRUE

require_session(q) == q.method # "OPTIONS"

User(q) == IF q.method = "POST" /\ "user" \in q.body.has THEN q.body.user ELSE None

\* Mutant: __enter__ without the `not apiurl` half of its first test.
OriginRejectedMismatchOnly(q) == ~Truthy(apiurl) /\ Truthy(origin_domain_get(q)) /\ ~EndsWith(apiurl_get(q), origin_domain_get(q))

OriginRejected(q) == ~Truthy(apiurl_get(q)) \/ (~Truthy(apiurl) /\ Truthy(origin_domain_get(q)) /\ ~EndsWith(apiurl_get(q), origin_domain_get(q)))

\* Mutant: the session test with require_session negated.
SessionRejectedInverted(q) == ~require_session(q) /\ ~Truthy(session_get(q))

SessionRejected(q) == require_session(q) /\ ~Truthy(session_get(q))

EnterMessage(q) ==
    IF ~Truthy(apiurl_get(q)) THEN <<"unable to determine apiurl">>
    ELSE IF OriginRejected(q) THEN <<"origin does not match host domain">>
    ELSE <<"unable to determine session">>

\* What the except clause of the method handler puts on the wire after
\* __enter__ sent the status `code`, ended the headers and raised.
RejectedWire(w, buf, q, code) ==
    IF q.method = "OPTIONS"
    THEN Flushed(Flushed(w, send_response(buf, code)), send_header(<<>>, "Allow", <<"OPTIONS, GET, POST">>))
    ELSE write_string(Flushed(w, send_response(buf, code)), EnterMessage(q))

CorsHeaders(buf, q) ==
    IF Truthy(origin_domain_get(q))
    THEN send_header(send_header(buf, "Access-Control-Allow-Credentials", <<"true">>), "Access-Control-Allow-Origin", q.Origin)
    ELSE buf

\* OSCRequestEnvironment.__enter__ up to the creation of the temporary files,
\* with the except clause of the caller when it raises.
Enter(r) ==
    /\ pc[r] = "enter"
    /\ IF OriginRejected(req[r])
       THEN /\ wfile' = [wfile EXCEPT ![r] = RejectedWire(@, headers_buffer[r], req[r], "400")]
            /\ pc' = [pc EXCEPT ![r] = "done"]
            /\ UNCHANGED headers_buffer
       ELSE IF SessionRejected(req[r])
       THEN /\ wfile' = [wfile EXCEPT ![r] = RejectedWire(@, headers_buffer[r], req[r], "401")]
            /\ pc' = [pc EXCEPT ![r] = "done"]
            /\ UNCHANGED headers_buffer
       ELSE /\ headers_buffer' = [headers_buffer EXCEPT ![r] = CorsHeaders(send_header(send_response(@, "200"), "Content-type", <<"text/plain">>), req[r])]
            /\ pc' = [pc EXCEPT ![r] = "mktemp"]
            /\ UNCHANGED wfile
    /\ UNCHANGED <<apiurl, session, now, entered, req, exc, cookiejar_file, oscrc_file, commands, command, runs, environ, files, content>>

\* tempfile draws a random name no existing file has.  Names are opaque and
\* the program only passes them on, so the least unused name stands for any.
Fresh(used) == CHOOSE n \in Names \ used : \A m \in Names \ used : n <= m

\* __enter__: the two NamedTemporaryFile() calls.
MkTemp(r) ==
    /\ pc[r] = "mktemp"
    /\ Cardinality(Names \ files) >= 2
    /\ cookiejar_file' = [cookiejar_file EXCEPT ![r] = Fresh(files)]
    /\ oscrc_file' = [oscrc_file EXCEPT ![r] = Fresh(files \cup {Fresh(files)})]
    /\ files' = files \cup {Fresh(files), Fresh(files \cup {Fresh(files)})}
    /\ content' = [n \in Names |-> IF n \in {Fresh(files), Fresh(files \cup {Fresh(files)})} THEN Written(NoContent, now) ELSE content[n]]
    /\ pc' = [pc EXCEPT ![r] = "oscrc"]
    /\ UNCHANGED <<apiurl, session, now, entered, req, exc, headers_buffer, wfile, commands, command, runs, environ>>

\* Mutant: the modification time is set back before the write and the flush.
oscrc_create_utime_first(r) ==
    /\ pc[r] = "oscrc"
    /\ content' = [content EXCEPT ![oscrc_file[r]] = Written([Utime(@, now - RECENT_PAST) EXCEPT !.kind = "oscrc", !.apiurl = apiurl_get(req[r]), !.cookiejar = cookiejar_file[r], !.user = User(req[r])], now)]
    /\ pc' = [pc EXCEPT ![r] = "cookiejar"]
    /\ UNCHANGED <<apiurl, session, now, entered, req, exc, headers_buffer, wfile, cookiejar_file, oscrc_file, commands, command, runs, environ, files>>

\* oscrc_create: write and flush the config, then set its modification time
\* an hour back.
oscrc_create(r) ==
    /\ pc[r] = "oscrc"
    /\ content' = [content EXCEPT ![oscrc_file[r]] = Utime(Written([@ EXCEPT !.kind = "oscrc", !.apiurl = apiurl_get(req[r]), !.cookiejar = cookiejar_file[r], !.user = User(req[r])], now), now - RECENT_PAST)]
    /\ pc' = [pc EXCEPT ![r] = "cookiejar"]
    /\ UNCHANGED <<apiurl, session, now, entered, req, exc, headers_buffer, wfile, cookiejar_file, oscrc_file, commands, command, runs, environ, files>>

\* cookiejar_create; __enter__ then returns the config file.
cookiejar_create(r) ==
    /\ pc[r] = "cookiejar"
    /\ content' = [content EXCEPT ![cookiejar_file[r]] = Written([@ EXCEPT !.kind = "cookiejar", !.session = session_get(req[r])], now)]
    /\ entered' = [entered EXCEPT ![r] = TRUE]
    /\ pc' = [pc EXCEPT ![r] = "body"]
    /\ UNCHANGED <<apiurl, session, now, req, exc, headers_buffer, wfile, cookiejar_file, oscrc_file, commands, command, runs, environ, files>>

\* The body of the with statement of do_OPTIONS.
BodyOptions(r) ==
    /\ pc[r] = "body" /\ req[r].method = "OPTIONS"
    /\ headers_buffer' = [headers_buffer EXCEPT ![r] = send_header(send_header(@, "Access-Control-Allow-Methods", <<"GET, POST">>), "Access-Control-Allow-Headers", <<"Access-Control-Allow-Origin, Content-Type, X-Requested-With">>)]
    /\ pc' = [pc EXCEPT ![r] = "exit"]
    /\ UNCHANGED <<apiurl, session, now, entered, req, exc, wfile, cookiejar_file, oscrc_file, commands, command, runs, environ, files, content>>

\* The body of the with statement of do_GET up to subprocess.run: the route
\* handler, end_headers, and the first two lines of execute.
BodyGet(r) ==
    /\ pc[r] = "body" /\ req[r].method = "GET"
    /\ IF GetHandlerRaises(req[r]) # ""
       THEN /\ exc' = [exc EXCEPT ![r] = GetHandlerRaises(req[r])]
            /\ pc' = [pc EXCEPT ![r] = "exit"]
            /\ UNCHANGED <<headers_buffer, wfile, command, environ>>
       ELSE /\ command' = [command EXCEPT ![r] = GetHandler(req[r])]
            /\ wfile' = [wfile EXCEPT ![r] = Flushed(@, headers_buffer[r])]
            /\ headers_buffer' = [headers_buffer EXCEPT ![r] = <<>>]
            /\ environ' = oscrc_file[r]
            /\ pc' = [pc EXCEPT ![r] = "spawn"]
            /\ UNCHANGED exc
    /\ UNCHANGED <<apiurl, session, now, entered, req, cookiejar_file, oscrc_file, commands, runs, files, content>>

\* The body of the with statement of do_POST up to the for loop: the route
\* handler (a list for request/submit, a generator for staging/select) and
\* end_headers.
BodyPost(r) ==
    /\ pc[r] = "body" /\ req[r].method = "POST"
    /\ IF PathPrefix(req[r]) = <<"request", "/", "submit">> /\ Len(Args(req[r])) < 3
       THEN /\ exc' = [exc EXCEPT ![r] = "IndexError"]
            /\ pc' = [pc EXCEPT ![r] = "exit"]
            /\ UNCHANGED <<headers_buffer, wfile, commands>>
       ELSE /\ commands' = [commands EXCEPT ![r] = [kind |-> IF PathPrefix(req[r]) = <<"request", "/", "submit">> THEN "list" ELSE "generator", next |-> 1]]
            /\ wfile' = [wfile EXCEPT ![r] = Flushed(@, headers_buffer[r])]
            /\ headers_buffer' = [headers_buffer EXCEPT ![r] = <<>>]
            /\ pc' = [pc EXCEPT ![r] = "iterate"]
            /\ UNCHANGED exc
    /\ UNCHANGED <<apiurl, session, now, entered, req, cookiejar_file, oscrc_file, command, runs, environ, files, content>>

\* What asking the iterator of `commands` for its next item does.
NextRaises(q, it) ==
    IF it.kind # "generator" THEN ""
    ELSE IF "selection" \notin q.body.has THEN "KeyError"
    ELSE IF it.next <= Len(q.body.selection) /\ "project" \notin q.body.has THEN "KeyError"
    ELSE ""

Exhausted(q, it) == IF it.kind = "list" THEN it.next > Len(handle_request_submit(q)) ELSE it.next > Len(q.body.selection)

NextCommand(q, it) == IF it.kind = "list" THEN handle_request_submit(q)[it.next] ELSE handle_staging_select(q, it.next)

Echo(cmd) == <<"$", " ">> \o Join(cmd, " ") \o <<"\n">>

\* One turn of the for loop of do_POST up to subprocess.run: the next
\* command, its echo, and the first two lines of execute.
Iterate(r) ==
    /\ pc[r] = "iterate"
    /\ IF NextRaises(req[r], commands[r]) # ""
       THEN /\ exc' = [exc EXCEPT ![r] = NextRaises(req[r], commands[r])]
            /\ pc' = [pc EXCEPT ![r] = "exit"]
            /\ UNCHANGED <<wfile, commands, command, environ>>
       ELSE IF Exhausted(req[r], commands[r])
       THEN /\ pc' = [pc EXCEPT ![r] = "exit"]
            /\ UNCHANGED <<exc, wfile, commands, command, environ>>
       ELSE /\ command' = [command EXCEPT ![r] = NextCommand(req[r], commands[r])]
            /\ commands' = [commands EXCEPT ![r].next = @ + 1]
            /\ wfile' = [wfile EXCEPT ![r] = write_string(@, Echo(NextCommand(req[r], commands[r])))]
            /\ environ' = oscrc_file[r]
            /\ pc' = [pc EXCEPT ![r] = "spawn"]
            /\ UNCHANGED exc
    /\ UNCHANGED <<apiurl, session, now, entered, req, headers_buffer, cookiejar_file, oscrc_file, runs, files, content>>

\* subprocess.run starts the child with the environment as it is now.
Spawn(r) ==
    /\ pc[r] = "spawn"
    /\ runs' = [runs EXCEPT ![r] = Append(@, [argv |-> command[r], OSC_CONFIG |-> environ, returncode |-> -1])]
    /\ pc' = [pc EXCEPT ![r] = "wait"]
    /\ UNCHANGED <<apiurl, session, now, entered, req, exc, headers_buffer, wfile, cookiejar_file, oscrc_file, commands, command, environ, files, content>>

\* subprocess.run fails to start the child.
SpawnFails(r) ==
    /\ pc[r] = "spawn"
    /\ exc' = [exc EXCEPT ![r] = "OSError"]
    /\ pc' = [pc EXCEPT ![r] = "exit"]
    /\ UNCHANGED <<apiurl, session, now, entered, req, headers_buffer, wfile, cookiejar_file, oscrc_file, commands, command, runs, environ, files, content>>

\* Mutant: the for loop of do_POST without its break.
WaitNoBreak(r, returncode) ==
    /\ pc[r] = "wait"
    /\ runs' = [runs EXCEPT ![r][Len(runs[r])].returncode = returncode]
    /\ wfile' = [wfile EXCEPT ![r] = IF returncode = 0 THEN Append(@, <<"CHILD">>) ELSE write_string(Append(@, <<"CHILD">>), <<"failed">>)]
    /\ pc' = [pc EXCEPT ![r] = IF req[r].method = "POST" THEN "iterate" ELSE "exit"]
    /\ UNCHANGED <<apiurl, session, now, entered, req, exc, headers_buffer, cookiejar_file, oscrc_file, commands, command, environ, files, content>>

\* Mutant: execute's result is ignored, 'failed' is never written.
WaitNeverFailed(r, returncode) ==
    /\ pc[r] = "wait"
    /\ runs' = [runs EXCEPT ![r][Len(runs[r])].returncode = returncode]
    /\ wfile' = [wfile EXCEPT ![r] = Append(@, <<"CHILD">>)]
    /\ pc' = [pc EXCEPT ![r] = IF req[r].method = "POST" /\ returncode = 0 THEN "iterate" ELSE "exit"]
    /\ UNCHANGED <<apiurl, session, now, entered, req, exc, headers_buffer, cookiejar_file, oscrc_file, commands, command, environ, files, content>>

\* The child has written its output and exits with returncode; execute
\* returns, and the caller writes 'failed' on a false result.
Wait(r, returncode) ==
    /\ pc[r] = "wait"
    /\ runs' = [runs EXCEPT ![r][Len(runs[r])].returncode = returncode]
    /\ wfile' = [wfile EXCEPT ![r] = IF returncode = 0 THEN Append(@, <<"CHILD">>) ELSE write_string(Append(@, <<"CHILD">>), <<"failed">>)]
    /\ pc' = [pc EXCEPT ![r] = IF req[r].method = "POST" /\ returncode = 0 THEN "iterate" ELSE "exit"]
    /\ UNCHANGED <<apiurl, session, now, entered, req, exc, headers_buffer, cookiejar_file, oscrc_file, commands, command, environ, files, content>>

\* Mutant: __exit__ removes the files only when the with body did not raise.
ExitKeepsFilesOnError(r) ==
    /\ pc[r] = "exit"
    /\ files' = IF exc[r] # "" THEN files ELSE files \ {cookiejar_file[r], oscrc_file[r]}
    /\ content' = [n \in Names |-> IF exc[r] = "" /\ n \in {cookiejar_file[r], oscrc_file[r]} THEN NoContent ELSE content[n]]
    /\ IF exc[r] # ""
       THEN /\ pc' = [pc EXCEPT ![r] = "raised"]
            /\ UNCHANGED <<wfile, headers_buffer>>
       ELSE /\ pc' = [pc EXCEPT ![r] = "done"]
            /\ IF req[r].method = "OPTIONS"
               THEN /\ wfile' = [wfile EXCEPT ![r] = Flushed(@, headers_buffer[r])]
                    /\ headers_buffer' = [headers_buffer EXCEPT ![r] = <<>>]
               ELSE UNCHANGED <<wfile, headers_buffer>>
    /\ UNCHANGED <<apiurl, session, now, entered, req, exc, cookiejar_file, oscrc_file, commands, command, runs, environ>>

\* OSCRequestEnvironment.__exit__, and what follows the with statement:
\* the end_headers of do_OPTIONS, or the exception going up to the server.
Exit(r) ==
    /\ pc[r] = "exit"
    /\ files' = files \ {cookiejar_file[r], oscrc_file[r]}
    /\ content' = [n \in Names |-> IF n \in {cookiejar_file[r], oscrc_file[r]} THEN NoContent ELSE content[n]]
    /\ IF exc[r] # ""
       THEN /\ pc' = [pc EXCEPT ![r] = "raised"]
            /\ UNCHANGED <<wfile, headers_buffer>>
       ELSE /\ pc' = [pc EXCEPT ![r] = "done"]
            /\ IF req[r].method = "OPTIONS"
               THEN /\ wfile' = [wfile EXCEPT ![r] = Flushed(@, headers_buffer[r])]
                    /\ headers_buffer' = [headers_buffer EXCEPT ![r] = <<>>]
               ELSE UNCHANGED <<wfile, headers_buffer>>
    /\ UNCHANGED <<apiurl, session, now, entered, req, exc, cookiejar_file, oscrc_file, commands, command, runs, environ>>

\* The handler returns (or the server reports its exception); the worker
\* thread ends and its slot takes the next connection.
Finish(r) ==
    /\ pc[r] \in {"done", "raised"}
    /\ pc' = [pc EXCEPT ![r] = "idle"]
    /\ req' = [req EXCEPT ![r] = NoRequest]
    /\ exc' = [exc EXCEPT ![r] = ""]
    /\ headers_buffer' = [headers_buffer EXCEPT ![r] = <<>>]
    /\ wfile' = [wfile EXCEPT ![r] = <<>>]
    /\ cookiejar_file' = [cookiejar_file EXCEPT ![r] = 0]
    /\ oscrc_file' = [oscrc_file EXCEPT ![r] = 0]
    /\ commands' = [commands EXCEPT ![r] = NoCommands]
    /\ command' = [command EXCEPT ![r] = <<>>]
    /\ runs' = [runs EXCEPT ![r] = <<>>]
    /\ entered' = [entered EXCEPT ![r] = FALSE]
    /\ UNCHANGED <<apiurl, session, now, environ, files, content>>

\* ------------------------------------------------ failures of __enter__
\* The second NamedTemporaryFile() call raises (no space, no descriptors)
\* after the first one made its file; __enter__ raises, so the with
\* statement calls no __exit__, and do_GET/do_POST/do_OPTIONS only catch
\* OSCRequestEnvironmentException.
MkTempFails(r) ==
    /\ pc[r] = "mktemp"
    /\ Names \ files # {}
    /\ cookiejar_file' = [cookiejar_file EXCEPT ![r] = Fresh(files)]
    /\ files' = files \cup {Fresh(files)}
    /\ content' = [content EXCEPT ![Fresh(files)] = Written(NoContent, now)]
    /\ exc' = [exc EXCEPT ![r] = "OSError"]
    /\ pc' = [pc EXCEPT ![r] = "raised"]
    /\ UNCHANGED <<apiurl, session, now, entered, req, headers_buffer, wfile, oscrc_file, commands, command, runs, environ>>

\* oscrc_file.write or flush raises before the config is complete.
oscrc_create_fails(r) ==
    /\ pc[r] = "oscrc"
    /\ exc' = [exc EXCEPT ![r] = "OSError"]
    /\ pc' = [pc EXCEPT ![r] = "raised"]
    /\ UNCHANGED <<apiurl, session, now, entered, req, headers_buffer, wfile, cookiejar_file, oscrc_file, commands, command, runs, environ, files, content>>

\* cookie_jar.save or cookiejar_file.flush raises.
cookiejar_create_fails(r) ==
    /\ pc[r] = "cookiejar"
    /\ exc' = [exc EXCEPT ![r] = "OSError"]
    /\ pc' = [pc EXCEPT ![r] = "raised"]
    /\ UNCHANGED <<apiurl, session, now, entered, req, headers_buffer, wfile, cookiejar_file, oscrc_file, commands, command, runs, environ, files, content>>

\* The files of the NamedTemporaryFile objects no request holds any more.
Unreferenced == files \ ({cookiejar_file[r] : r \in Threads} \cup {oscrc_file[r] : r \in Threads})

\* The interpreter finalizes the unreferenced NamedTemporaryFile objects,
\* whenever it gets to it; their finalizer closes and removes the file.
Collect ==
    /\ Unreferenced # {}
    /\ files' = files \ Unreferenced
    /\ content' = [n \in Names |-> IF n \in Unreferenced THEN NoContent ELSE content[n]]
    /\ UNCHANGED <<apiurl, session, now, req, pc, exc, entered, headers_buffer, wfile, cookiejar_file, oscrc_file, commands, command, runs, environ>>

Fault(r) == MkTempFails(r) \/ oscrc_create_fails(r) \/ cookiejar_create_fails(r)

\* A second passes.
Tick ==
    /\ now < MaxClock
    /\ now' = now + 1
    /\ UNCHANGED <<apiurl, session, req, pc, exc, entered, headers_buffer, wfile, cookiejar_file, oscrc_file, commands, command, runs, environ, files, content>>

Step(r) ==
    \/ RouteGet(r) \/ RoutePost(r) \/ RouteOptions(r)
    \/ Enter(r) \/ MkTemp(r) \/ oscrc_create(r) \/ cookiejar_create(r)
    \/ BodyOptions(r) \/ BodyGet(r) \/ BodyPost(r)
    \/ Iterate(r) \/ Spawn(r) \/ SpawnFails(r)
    \/ \E returncode \in {0, 1} : Wait(r, returncode)
    \/ Exit(r) \/ Finish(r)

\* One connection at a time, every request of RequestValues.
Next == (\E q \in RequestValues : Receive(1, q)) \/ Step(1)

Spec == Init /\ [][Next]_vars

\* ------------------------------------------------ concurrent connections
ThreadRequestValues ==
    {[NoRequest EXCEPT !.method = "GET", !.path = <<"/", "origin", "/", "list", "/", "P">>],
     [NoRequest EXCEPT !.method = "OPTIONS", !.path = <<"/">>],
     [NoRequest EXCEPT !.method = "POST", !.path = <<"/", "staging", "/", "select">>,
                       !.body = [NoBody EXCEPT !.has = {"project", "selection"}, !.project = <<"P">>, !.selection = Selection(1)]]}

ThreadRequest(q) == [q EXCEPT !.Host = <<"operator", ".", "ex", "ample", ".", "com">>, !.Cookie = <<"openSUSE_session", "=", "s3cr3t">>]

\* ThreadingMixIn: one worker thread per connection, steps interleaved.
NextThreads == \E r \in Threads : (\E q \in ThreadRequestValues : Receive(r, ThreadRequest(q))) \/ Step(r)

SpecThreads == Init /\ [][NextThreads]_vars

\* --------------------------------------------- input/output failures
\* One connection at a time, with the failures of __enter__ and finalizers.
NextFaults == (\E q \in ThreadRequestValues : Receive(1, ThreadRequest(q))) \/ Step(1) \/ Fault(1) \/ Collect

SpecFaults == Init /\ [][NextFaults]_vars

\* --------------------------------------------------------------- time
\* One connection at a time while the clock advances.
NextClock == (\E q \in ThreadRequestValues : Receive(1, ThreadRequest(q))) \/ Step(1) \/ Tick

SpecClock == Init /\ [][NextClock]_vars

\* ------------------------------------------------------ Host headers
\* Host headers put together from dot-separated labels and an optional port.
LabelValues == {<<>>, <<"a">>, <<"ex", "ample">>}

LabelSeqs == UNION {[1..n -> LabelValues] : n \in 1..MaxLabels}

PortValues == {<<>>, <<":", "8080">>}

HostOf(labels, port) == Join(labels, ".") \o port

EndpointRequestValues ==
    {[q EXCEPT !.Host = h, !.Cookie = <<"openSUSE_session", "=", "s3cr3t">>] :
        q \in ThreadRequestValues, h \in {None} \cup {HostOf(labels, port) : labels \in LabelSeqs, port \in PortValues}}

NextEndpoint == (\E q \in EndpointRequestValues : Receive(1, q)) \/ Step(1)

SpecEndpoint == Init /\ [][NextEndpoint]_vars

\* ------------------------------------------------- reading a response
Status(r) == IF Len(wfile[r]) > 0 /\ wfile[r][1][1] = "HTTP" THEN wfile[r][1][2] ELSE ""

HeaderBlock(w) == IF Contains(w, Blank) THEN SubSeq(w, 1, Find(w, Blank) - 1) ELSE <<>>

BodyBlock(w) == IF Contains(w, Blank) THEN SubSeq(w, Find(w, Blank) + 1, Len(w)) ELSE <<>>

\* The request got past the route check of its method handler (and, for a
\* POST, its body was read), so that its with statement was reached.
Routed(q) ==
    CASE q.method = "GET" -> PathPrefix(q) # <<>> /\ Len(PathParts(q)) >= 3 /\ PathPrefix(q) \in GET_PATHS
      [] q.method = "POST" -> Len(PathParts(q)) >= 2 /\ PathPrefix(q) \in POST_PATHS /\ q.body.parse = "ok"
      [] OTHER -> q.method = "OPTIONS"

Past(r) == pc[r] \notin {"idle", "route", "enter"}

NoSandbox(r) == cookiejar_file[r] = 0 /\ oscrc_file[r] = 0

\* send_response(404) and end_headers with nothing after them.
NotFoundResponse == <<<<"HTTP", "404">>, <<"Server", ":">>, <<"Date", ":">>, Blank>>

EndpointDomain(q) == Join(LastItems(Split(Split(UrlNetloc(apiurl_get(q)), ":")[1], "."), 2), ".")

\* --------------------------------------------------------------- claims

\* C1: with no fixed endpoint, a routed GET, POST or OPTIONS request whose
\* OriginDomain differs from the last two labels of the Endpoint's domain is
\* answered 400 and no sandbox file is created for it.
C1_OriginMismatchRejected ==
    \A r \in Threads :
        (/\ ~Truthy(apiurl) /\ Past(r) /\ Routed(req[r])
         /\ Truthy(origin_domain_get(req[r]))
         /\ (~Truthy(apiurl_get(req[r])) \/ origin_domain_get(req[r]) # EndpointDomain(req[r])))
        => (pc[r] = "done" /\ Status(r) = "400" /\ NoSandbox(r))

\* C2: when the handling of a GET or POST request whose __enter__ returned
\* has ended, normally or by an exception, neither artifact exists.
C2_SandboxReleased ==
    \A r \in Threads :
        (req[r].method \in {"GET", "POST"} /\ entered[r] /\ pc[r] \in {"done", "raised"})
        => (cookiejar_file[r] \notin files /\ oscrc_file[r] \notin files)

C2_Witness == \E r \in Threads : req[r].method = "POST" /\ entered[r] /\ pc[r] = "raised" /\ exc[r] = "OSError" /\ Len(runs[r]) = 1

\* C3: every subprocess launched for a request runs with the config path of
\* the sandbox that request acquired.
C3_OwnConfig == \A r \in Threads : \A i \in 1..Len(runs[r]) : runs[r][i].OSC_CONFIG = oscrc_file[r]

\* The whole batch the POST route handler of q produces.
Batch(q) == IF PathPrefix(q) = <<"request", "/", "submit">> THEN handle_request_submit(q) ELSE [i \in 1..Len(q.body.selection) |-> handle_staging_select(q, i)]

RECURSIVE ExpectedBody(_)
ExpectedBody(rs) ==
    IF rs = <<>> THEN <<>>
    ELSE <<<<"TEXT", "$", " ">> \o Join(Head(rs).argv, " ") \o <<"\n">>, <<"CHILD">>>>
         \o (IF Head(rs).returncode # 0 THEN <<<<"TEXT", "failed">>>> ELSE <<>>)
         \o ExpectedBody(Tail(rs))

\* The '$ argv' lines of a response, in order.
Echoes(w) == SelectSeq(w, LAMBDA x : Len(x) >= 2 /\ x[1] = "TEXT" /\ x[2] = "$")

\* C4: the Commands of a POST batch run one at a time in the order produced,
\* each after its own '$ argv' echo and none (echoed or run) after a Command
\* that exited non-zero; when the request is done the
\* body is, per Command run, its '$ argv' echo and its output, and one
\* 'failed' after the Command that exited non-zero (none if all exited zero),
\* and a batch that was cut short was cut by a non-zero exit.
C4_BatchStopsAtFirstFailure ==
    \A r \in Threads : req[r].method = "POST" =>
        /\ \A i \in 1..Len(runs[r]) : runs[r][i].argv = Batch(req[r])[i]
        /\ \A i \in 1..(Len(runs[r]) - 1) : runs[r][i].returncode = 0
        /\ Len(Echoes(wfile[r])) \in {Len(runs[r]), Len(runs[r]) + 1}
        /\ \A i \in 1..Len(runs[r]) : Echoes(wfile[r])[i] = <<"TEXT">> \o Echo(runs[r][i].argv)
        /\ (pc[r] = "done" /\ entered[r]) =>
              /\ BodyBlock(wfile[r]) = ExpectedBody(runs[r])
              /\ (Len(runs[r]) < Len(Batch(req[r])) => runs[r][Len(runs[r])].returncode # 0)
              /\ Len(SelectSeq(BodyBlock(wfile[r]), LAMBDA x : x = <<"TEXT", "failed">>))
                   = (IF \E i \in 1..Len(runs[r]) : runs[r][i].returncode # 0 THEN 1 ELSE 0)

C4_Witness ==
    \E r \in Threads :
        /\ req[r].method = "POST" /\ pc[r] = "done" /\ entered[r] /\ Len(Batch(req[r])) = 3
        /\ Len(runs[r]) = 2 /\ runs[r][1].returncode = 0 /\ runs[r][2].returncode = 1

\* C5: handling an OPTIONS request never creates a sandbox artifact.
C5_OptionsCreatesNoSandbox == \A r \in Threads : req[r].method = "OPTIONS" => NoSandbox(r)

\* C6: a routed GET or POST request that passes origin validation, with no
\* session override configured and no openSUSE_session cookie, is answered
\* 401; no sandbox artifact is created and no Command is executed for it.
C6_MissingSessionRejected ==
    \A r \in Threads :
        (/\ req[r].method \in {"GET", "POST"} /\ Routed(req[r]) /\ Past(r)
         /\ ~OriginRejected(req[r])
         /\ ~Truthy(session) /\ ~Contains(req[r].Cookie, "openSUSE_session"))
        => (pc[r] = "done" /\ Status(r) = "401" /\ NoSandbox(r) /\ runs[r] = <<>>)

C6_Witness ==
    \E r \in Threads :
        /\ req[r].method = "POST" /\ Routed(req[r]) /\ Status(r) = "401"
        /\ Truthy(req[r].Cookie) /\ ~Contains(req[r].Cookie, "openSUSE_session")

\* C7: when an OriginDomain is present and origin validation passes, the
\* response headers carry Access-Control-Allow-Credentials: true and
\* Access-Control-Allow-Origin: <Origin>, whatever the status.
C7_CorsHeadersEchoed ==
    \A r \in Threads :
        (/\ Routed(req[r]) /\ pc[r] = "done"
         /\ Truthy(origin_domain_get(req[r])) /\ ~OriginRejected(req[r]))
        => /\ Contains(HeaderBlock(wfile[r]), <<"Access-Control-Allow-Credentials", ":", "true">>)
           /\ Contains(HeaderBlock(wfile[r]), <<"Access-Control-Allow-Origin", ":">> \o req[r].Origin)

\* C8: an OPTIONS request that fails origin validation carries
\* Allow: OPTIONS, GET, POST inside its header block and neither CORS
\* method/header line.
C8_AllowHeaderOnRejectedOptions ==
    \A r \in Threads :
        (req[r].method = "OPTIONS" /\ pc[r] = "done" /\ OriginRejected(req[r]))
        => /\ Contains(HeaderBlock(wfile[r]), <<"Allow", ":", "OPTIONS, GET, POST">>)
           /\ \A i \in 1..Len(wfile[r]) : wfile[r][i][1] \notin {"Access-Control-Allow-Methods", "Access-Control-Allow-Headers"}

\* C9: with a fixed endpoint configured, the endpoint written to every
\* sandbox config is the fixed one whatever the Host header, and no request
\* is answered 400.
C9_FixedEndpointAlwaysUsed ==
    Truthy(apiurl) =>
        \A r \in Threads :
            /\ Status(r) # "400"
            /\ (oscrc_file[r] \in files /\ content[oscrc_file[r]].kind = "oscrc") => content[oscrc_file[r]].apiurl = apiurl

C9_Witness ==
    \E r \in Threads :
        /\ Truthy(apiurl) /\ req[r].Host = None
        /\ origin_domain_get(req[r]) = <<"evil", ".", "org">>
        /\ oscrc_file[r] \in files /\ content[oscrc_file[r]].apiurl = FixedApiurl

\* C10 as stated: a GET request that fails the GET route check, and a POST
\* request that fails the POST route check, is answered 404 with an empty
\* body; no sandbox artifact is created and no Command is executed for it.
C10_UnroutedIs404 ==
    \A r \in Threads :
        (/\ pc[r] \notin {"idle", "route"}
         /\ \/ req[r].method = "GET" /\ (Len(PathParts(req[r])) < 3 \/ PathPrefix(req[r]) \notin GET_PATHS)
            \/ req[r].method = "POST" /\ (Len(PathParts(req[r])) < 2 \/ PathPrefix(req[r]) \notin POST_PATHS))
        => (pc[r] = "done" /\ wfile[r] = NotFoundResponse /\ NoSandbox(r) /\ runs[r] = <<>>)

\* C10 amended: the same for every GET request whose path is not the root.
C10_UnroutedNonRootIs404 ==
    \A r \in Threads :
        (/\ pc[r] \notin {"idle", "route"}
         /\ \/ /\ req[r].method = "GET" /\ LStrip(UrlPath(req[r].path), "/") # <<>>
               /\ (Len(PathParts(req[r])) < 3 \/ PathPrefix(req[r]) \notin GET_PATHS)
            \/ req[r].method = "POST" /\ (Len(PathParts(req[r])) < 2 \/ PathPrefix(req[r]) \notin POST_PATHS))
        => (pc[r] = "done" /\ wfile[r] = NotFoundResponse /\ NoSandbox(r) /\ runs[r] = <<>>)

C10_Witness ==
    \E r \in Threads :
        /\ req[r].method = "GET" /\ PathPrefix(req[r]) = <<"origin", "/", "list">> /\ Len(PathParts(req[r])) = 2
        /\ pc[r] = "done" /\ wfile[r] = NotFoundResponse

\* C11: a GET request whose Command was executed is answered 200 whatever the
\* exit status of the subprocess, and the last thing in its body is the
\* literal 'failed' exactly when that exit status was not zero.
C11_GetStatusAndFailedMarker ==
    \A r \in Threads :
        (req[r].method = "GET" /\ Len(runs[r]) > 0 /\ runs[r][1].returncode # -1)
        => /\ Len(runs[r]) = 1
           /\ Status(r) = "200"
           /\ Contains(wfile[r], Blank)
           /\ (wfile[r][Len(wfile[r])] = <<"TEXT", "failed">>) <=> (runs[r][1].returncode # 0)

C11_Witness ==
    \E r \in Threads :
        /\ req[r].method = "GET" /\ pc[r] = "done" /\ Len(runs[r]) = 1 /\ runs[r][1].returncode = 1
        /\ Status(r) = "200" /\ wfile[r][Len(wfile[r])] = <<"TEXT", "failed">>

\* What a GET of the root path is answered: 200, text/plain and the three
\* identity lines.
RootResponse ==
    <<<<"HTTP", "200">>, <<"Server", ":">>, <<"Date", ":">>, <<"Content-type", ":", "text/plain">>, Blank,
      <<"TEXT", "namespace: ", "common.NAME", "\n">>, <<"TEXT", "name: ", "OBS Operator", "\n">>, <<"TEXT", "version: ", "common.VERSION", "\n">>>>

IsRootGet(q) == q.method = "GET" /\ LStrip(UrlPath(q.path), "/") = <<>>

\* C12: no GET of the root path and no OPTIONS request is answered 401; the
\* root GET is answered 200 with the identity text whatever its Host, Origin
\* and Cookie, with no sandbox file and no Command; an OPTIONS request that
\* passes origin validation is answered 200 also when it has no session.
C12_NoSessionNeeded ==
    \A r \in Threads :
        /\ (IsRootGet(req[r]) \/ req[r].method = "OPTIONS") => Status(r) # "401"
        /\ (IsRootGet(req[r]) /\ pc[r] \notin {"idle", "route"})
           => (pc[r] = "done" /\ wfile[r] = RootResponse /\ NoSandbox(r) /\ runs[r] = <<>>)
        /\ (req[r].method = "OPTIONS" /\ ~OriginRejected(req[r]) /\ pc[r] \notin {"idle", "route", "enter"})
           => (exc[r] = "" /\ runs[r] = <<>> /\ (pc[r] = "done" => Status(r) = "200"))

C12_Witness ==
    \E r \in Threads :
        /\ req[r].method = "OPTIONS" /\ pc[r] = "done" /\ Status(r) = "200"
        /\ ~Truthy(session) /\ req[r].Cookie = None /\ Truthy(origin_domain_get(req[r]))

AfterToken(cmd, tok) == IF \E i \in 1..(Len(cmd) - 1) : cmd[i] = tok THEN cmd[(CHOOSE i \in 1..(Len(cmd) - 1) : cmd[i] = tok /\ \A j \in 1..(i - 1) : cmd[j] # tok) + 1] ELSE <<>>

Count(cmd, tok) == Cardinality({i \in 1..Len(cmd) : cmd[i] = tok})

\* C14 as stated: for GET package/diff with exactly 5 segments behind the
\* route key, the Command run has '--revision' directly followed by the
\* fifth segment with a colon appended ('rev1:').
C14_RevisionWithColon ==
    \A r \in Threads :
        (req[r].method = "GET" /\ PathPrefix(req[r]) = <<"package", "/", "diff">> /\ Len(Args(req[r])) = 5 /\ Len(runs[r]) > 0)
        => /\ Count(runs[r][1].argv, <<"--revision">>) = 1
           /\ AfterToken(runs[r][1].argv, <<"--revision">>) = Args(req[r])[5] \o <<":">>

\* C14 amended: '--revision' is directly followed by the fifth segment
\* alone ('rev1', no colon), and the Command is
\* osc rdiff <source project> <source package> <target project>
\* <target package> --revision <rev1>.
C14_RevisionWithoutColon ==
    \A r \in Threads :
        (req[r].method = "GET" /\ PathPrefix(req[r]) = <<"package", "/", "diff">> /\ Len(Args(req[r])) = 5 /\ Len(runs[r]) > 0)
        => /\ Len(runs[r]) = 1
           /\ Count(runs[r][1].argv, <<"--revision">>) = 1
           /\ AfterToken(runs[r][1].argv, <<"--revision">>) = Args(req[r])[5]
           /\ runs[r][1].argv = <<<<"osc">>, <<"rdiff">>, Args(req[r])[1], Args(req[r])[2], Args(req[r])[3], Args(req[r])[4], <<"--revision">>, Args(req[r])[5]>>

C14_Witness ==
    \E r \in Threads :
        /\ req[r].method = "GET" /\ pc[r] = "done" /\ Len(Args(req[r])) = 5 /\ Len(runs[r]) = 1
        /\ runs[r][1].argv = <<<<"osc">>, <<"rdiff">>, <<"P">>, <<"pkg">>, <<"T">>, <<"tpkg">>, <<"--revision">>, <<"r1">>>>

FORMAT_PATHS == {<<"origin", "/", "history">>, <<"origin", "/", "list">>, <<"origin", "/", "potentials">>, <<"origin", "/", "projects">>}

\* The subtype of an Accept header: what stands between its first and its
\* second '/', None for a header without '/'.
AcceptSubtype(q) == IF Truthy(q.Accept) /\ Contains(q.Accept, "/") THEN Split(q.Accept, "/")[2] ELSE None

\* The first value of the 'format' query parameter, None without one.
FormatParameter(q) ==
    LET f == Split(UrlQuery(q.path), "&")
        hits == {i \in 1..Len(f) : Len(f[i]) >= 3 /\ f[i][1] = "format" /\ f[i][2] = "="}
    IN IF hits = {} THEN None ELSE SubSeq(f[CHOOSE i \in hits : \A j \in hits : i <= j], 3, Len(f[CHOOSE i \in hits : \A j \in hits : i <= j]))

ExpectedFormat(q) ==
    IF AcceptSubtype(q) \in {<<"json">>, <<"yaml">>} THEN AcceptSubtype(q)
    ELSE FormatParameter(q)

\* The route handler of r has run or raised.
Handled(r) == entered[r] /\ pc[r] \in {"spawn", "wait", "exit", "done", "raised"}

FormatAsNegotiated(r) ==
    IF ExpectedFormat(req[r]) = None
    THEN Count(command[r], <<"--format">>) = 0
    ELSE Count(command[r], <<"--format">>) = 1 /\ AfterToken(command[r], <<"--format">>) = ExpectedFormat(req[r])

\* C15: on the four routes that negotiate a format, whatever the Accept
\* header, the handler produces a Command: with '--format <subtype>' if the
\* Accept subtype is json or yaml (also when the query has another format),
\* otherwise with '--format <first value of the format parameter>' if there
\* is one, otherwise without '--format'.
C15_FormatNegotiationTotal ==
    \A r \in Threads :
        (req[r].method = "GET" /\ PathPrefix(req[r]) \in FORMAT_PATHS /\ Handled(r))
        => (exc[r] # "IndexError" /\ command[r] # <<>> /\ FormatAsNegotiated(r))

\* The same for the Accept headers that have a '/' (or are absent).
C15_FormatNegotiationWithSlash ==
    \A r \in Threads :
        (req[r].method = "GET" /\ PathPrefix(req[r]) \in FORMAT_PATHS /\ Handled(r)
         /\ (Truthy(req[r].Accept) => Contains(req[r].Accept, "/")))
        => (exc[r] # "IndexError" /\ command[r] # <<>> /\ FormatAsNegotiated(r))

C15_AcceptOverridesQuery ==
    \E r \in Threads :
        /\ req[r].Accept = <<"application", "/", "json">> /\ FormatParameter(req[r]) = <<"yaml">>
        /\ Len(runs[r]) = 1 /\ AfterToken(runs[r][1].argv, <<"--format">>) = <<"json">>

\* C16: for POST staging/select with a project P and a selection, the i-th
\* Command run is osc staging -p P select, then --move if the body's move is
\* truthy, then the staging name of the i-th entry, then its request ids;
\* when every Command exited zero there is exactly one per entry.
C16_OneSelectPerEntry ==
    \A r \in Threads :
        (/\ req[r].method = "POST" /\ PathPrefix(req[r]) = <<"staging", "/", "select">>
         /\ {"project", "selection"} \subseteq req[r].body.has)
        => /\ Len(runs[r]) <= Len(req[r].body.selection)
           /\ \A i \in 1..Len(runs[r]) :
                 runs[r][i].argv = <<<<"osc">>, <<"staging">>, <<"-p">>, req[r].body.project, <<"select">>>>
                                   \o (IF "move" \in req[r].body.has /\ req[r].body.move = TRUE THEN <<<<"--move">>>> ELSE <<>>)
                                   \o <<req[r].body.selection[i][1]>>
                                   \o req[r].body.selection[i][2]
           /\ (pc[r] = "done" /\ entered[r] /\ \A i \in 1..Len(runs[r]) : runs[r][i].returncode = 0)
              => Len(runs[r]) = Len(req[r].body.selection)

C16_Witness ==
    \E r \in Threads :
        /\ req[r].method = "POST" /\ pc[r] = "done" /\ req[r].body.move = TRUE /\ Len(req[r].body.selection) = 2
        /\ Len(runs[r]) = 2 /\ runs[r][2].returncode = 0
        /\ runs[r][2].argv = <<<<"osc">>, <<"staging">>, <<"-p">>, <<"P">>, <<"select">>, <<"--move">>, <<"B">>, <<"req1">>, <<"req2">>>>

\* The Host header is absent or its host part has no dot.
HostUndetermined(q) == q.Host = None \/ q.Host = <<>> \/ ~Contains(Split(q.Host, ":")[1], ".")

\* C18 as stated: with no fixed endpoint, every GET request other than the
\* root and every POST request whose Host header is absent or dot-less is
\* answered 400, whatever its path.
C18_ValidationBeforeRouting ==
    ~Truthy(apiurl) =>
        \A r \in Threads :
            (req[r].method \in {"GET", "POST"} /\ ~IsRootGet(req[r]) /\ HostUndetermined(req[r]) /\ Past(r))
            => (pc[r] = "done" /\ Status(r) = "400")

\* C18 amended: this holds for the requests that pass the route check of
\* their method handler (and, for a POST, whose body could be read): they
\* are answered 400 'unable to determine apiurl' with no sandbox file; the
\* others were answered 404 (or ended in the body's exception) before.
C18_ValidationAfterRouting ==
    ~Truthy(apiurl) =>
        \A r \in Threads :
            (req[r].method \in {"GET", "POST"} /\ ~IsRootGet(req[r]) /\ HostUndetermined(req[r]) /\ Past(r))
            => IF Routed(req[r])
               THEN pc[r] = "done" /\ Status(r) = "400" /\ BodyBlock(wfile[r]) = <<<<"TEXT", "unable to determine apiurl">>>> /\ NoSandbox(r) /\ runs[r] = <<>>
               ELSE \/ pc[r] = "done" /\ wfile[r] = NotFoundResponse /\ NoSandbox(r)
                    \/ pc[r] = "raised" /\ wfile[r] = <<>> /\ req[r].method = "POST" /\ req[r].body.parse = "raises" /\ NoSandbox(r)

C18_Witness ==
    \E r \in Threads :
        /\ ~Truthy(apiurl) /\ req[r].method = "POST" /\ Routed(req[r]) /\ req[r].Host = <<"localhost", ":", "8080">>
        /\ pc[r] = "done" /\ Status(r) = "400"

\* C17: once the config is written, while acquire goes on and when it has
\* returned, the modification time of the config lies between now - 3700
\* and now - 3500 seconds: the write and flush are followed by the utime an
\* hour back, and writing the cookie jar does not touch the config.
C17_ConfigBackdated ==
    \A r \in Threads :
        (pc[r] \in {"cookiejar", "body"} /\ exc[r] = "")
        => /\ content[oscrc_file[r]].kind = "oscrc"
           /\ content[oscrc_file[r]].mtime >= now - 3700
           /\ content[oscrc_file[r]].mtime <= now - 3500

C17_Witness ==
    \E r \in Threads :
        /\ pc[r] = "body" /\ entered[r] /\ now = 2
        /\ content[oscrc_file[r]].mtime = 1 - RECENT_PAST
        /\ content[cookiejar_file[r]].mtime = 2

\* C19: when __enter__ fails after it created one or both temporary files,
\* the files are gone when the handling of the request has ended, and no
\* temporary file is left behind by a request that is over.
C19_PartialAcquireReleased ==
    /\ \A r \in Threads :
          (pc[r] = "raised" /\ ~entered[r] /\ cookiejar_file[r] # 0)
          => (cookiejar_file[r] \notin files /\ oscrc_file[r] \notin files)
    /\ Unreferenced = {}

\* The i-th subprocess of r has been started and has not returned.
Running(r, i) == runs[r][i].returncode = -1

\* Every Command of a request runs after the request passed origin
\* validation and the session check and __enter__ wrote both of its files,
\* and the request's own files are there as long as the subprocess runs.
C20_OwnSandboxAroundRuns ==
    \A r \in Threads : \A i \in 1..Len(runs[r]) :
        /\ ~OriginRejected(req[r]) /\ ~SessionRejected(req[r]) /\ entered[r]
        /\ Running(r, i) =>
              /\ pc[r] = "wait" /\ i = Len(runs[r])
              /\ {cookiejar_file[r], oscrc_file[r]} \subseteq files
              /\ content[oscrc_file[r]].kind = "oscrc" /\ content[cookiejar_file[r]].kind = "cookiejar"

\* C20: a Command of a request runs only after origin validation and the
\* session check passed and both files were written, and the sandbox is
\* released only after the last Command returned: while a subprocess runs,
\* the config it runs with and the cookie jar that config names exist.
C20_CommandInsideSandbox ==
    /\ C20_OwnSandboxAroundRuns
    /\ \A r \in Threads : \A i \in 1..Len(runs[r]) :
          Running(r, i) =>
              /\ runs[r][i].OSC_CONFIG \in files
              /\ content[runs[r][i].OSC_CONFIG].kind = "oscrc"
              /\ content[runs[r][i].OSC_CONFIG].cookiejar \in files

====
